---- MODULE Spec2Model ----
(***************************************************************************)
(* A model of game.py: the Bird, Pipe and Base classes, draw_window and    *)
(* the game loop of main().                                                *)
(*                                                                         *)
(* Vertical quantities of the bird (y, vel, height, displacement) are all  *)
(* multiples of 0.5 in the program (vel is 0 or -10.5, the acceleration    *)
(* term is 1.5*n^2, the start height is 350), so the floating-point        *)
(* arithmetic on them is exact.  The model stores them in HALF pixels:     *)
(* a model value v stands for the program value v/2.                       *)
(***************************************************************************)
EXTENDS Integers, Sequences, FiniteSets

VARIABLES
    bird,     \* the Bird object: x, y, tilt, tick_count, vel, height, img_count, img
    pipes,    \* main's list of Pipe objects
    base,     \* the Base object: y, x1, x2 and the class attribute WIDTH
    score,    \* main's score
    run,      \* main's loop flag
    pc,       \* position of main: "loop" (in the while loop) or "exit" (after pygame.quit)
    win,      \* what was blitted on the window since the last background blit
    events,   \* the events drained by the last tick's pygame.event.get()
    collided, \* whether some Pipe.collide call of the last tick returned True
    marked,   \* how many times main has set a pipe's passed flag
    op,       \* the last operation performed
    frames    \* the frames selected by the latest Bird.draw calls (see NoteFrame)

vars == <<bird, pipes, base, score, run, pc, win, events, collided, marked, op, frames>>

---------------------------------------------------------------------------
(* Bounds of the model *)

\* Bird.move is explored while the bird is at most MaxTick calls from its last jump
MaxTick == 12
\* Bird.jump is explored while y >= MinY (half pixels)
MinY == 640
\* Bird.move is explored while y <= MaxY (half pixels)
MaxY == 1000
\* the game loop is explored until the score reaches MaxScore
MaxScore == 3

---------------------------------------------------------------------------
(* Program constants *)

WIN_WIDTH == 500
MAX_ROTATION == 25
ROT_VEL == 20
ANIMATION_TIME == 5
GAP == 200
PIPE_VEL == 5
BASE_VEL == 5
\* Bird.jump's velocity, -10.5, in half pixels
JUMP_VEL == -21
\* the terminal displacement, 16, in half pixels
TERMINAL == 32
\* the extra upward displacement, 2, in half pixels
UP_BIAS == 4
\* the tilt threshold distance below the jump height, 50, in half pixels
TILT_DROP == 100
\* the tilt floor tested by Bird.move
TILT_FLOOR == -90
\* the tilt at and below which Bird.draw stops the flapping
DIVE_TILT == -80
\* main's literals
BIRD_X == 230
BIRD_Y == 700   \* 350, in half pixels
FLOOR_Y == 730
PIPE_SPAWN_X == 600
\* sizes of the images after scale2x: bird 68x48, pipe 104x640, base 672 wide
BIRD_IMG_HEIGHT == 48
PIPE_IMG_WIDTH == 104
PIPE_IMG_HEIGHT == 640
BASE_IMG_WIDTH == 672

---------------------------------------------------------------------------
(* class Bird *)

\* Bird.__init__
Bird(x, y) ==
    [x |-> x, y |-> y, tilt |-> 0, tick_count |-> 0, vel |-> 0,
     height |-> y, img_count |-> 0, img |-> 0]

\* a jump that does not restart the tick counter
BirdJump_notick(b) ==
    [b EXCEPT !.vel = JUMP_VEL, !.height = b.y]

\* Bird.jump
BirdJump(b) ==
    [b EXCEPT !.vel = JUMP_VEL, !.tick_count = 0, !.height = b.y]

\* a displacement without the terminal velocity
Displacement_noclamp(vel, n) ==
    LET d == vel * n + 3 * n * n
    IN  IF d < 0 THEN d - UP_BIAS ELSE d

\* the displacement of Bird.move, in half pixels: vel*n + 1.5*n^2, the
\* terminal velocity, the upward bias
Displacement(vel, n) ==
    LET d  == vel * n + 3 * n * n
        d1 == IF d >= TERMINAL THEN TERMINAL ELSE d
    IN  IF d1 < 0 THEN d1 - UP_BIAS ELSE d1

\* a tilt update that looks at the direction of the displacement alone
NewTilt_signonly(tilt, disp, y, height) ==
    IF disp < 0
    THEN IF tilt < MAX_ROTATION THEN MAX_ROTATION ELSE tilt
    ELSE IF tilt > TILT_FLOOR THEN tilt - ROT_VEL ELSE tilt

\* the tilt update of Bird.move; y is the position after the displacement
NewTilt(tilt, disp, y, height) ==
    IF disp < 0 \/ y < height + TILT_DROP
    THEN IF tilt < MAX_ROTATION THEN MAX_ROTATION ELSE tilt
    ELSE IF tilt > TILT_FLOOR THEN tilt - ROT_VEL ELSE tilt

\* Bird.move
BirdMove(b) ==
    LET n    == b.tick_count + 1
        disp == Displacement(b.vel, n)
        y    == b.y + disp
    IN  [b EXCEPT !.tick_count = n,
                  !.y = y,
                  !.tilt = NewTilt(b.tilt, disp, y, b.height)]

\* a frame selection whose last branch does not reset the counter
SelectFrame_noreset(img, c) ==
    IF c < ANIMATION_TIME THEN [img |-> 0, img_count |-> c]
    ELSE IF c < ANIMATION_TIME * 2 THEN [img |-> 1, img_count |-> c]
    ELSE IF c < ANIMATION_TIME * 3 THEN [img |-> 2, img_count |-> c]
    ELSE IF c < ANIMATION_TIME * 4 THEN [img |-> 1, img_count |-> c]
    ELSE IF c = ANIMATION_TIME * 4 + 1 THEN [img |-> 0, img_count |-> c]
    ELSE [img |-> img, img_count |-> c]

\* the frame selection of Bird.draw, for the incremented counter c: the new
\* img and img_count (no branch is taken when c = 4*ANIMATION_TIME or
\* c > 4*ANIMATION_TIME + 1)
SelectFrame(img, c) ==
    IF c < ANIMATION_TIME THEN [img |-> 0, img_count |-> c]
    ELSE IF c < ANIMATION_TIME * 2 THEN [img |-> 1, img_count |-> c]
    ELSE IF c < ANIMATION_TIME * 3 THEN [img |-> 2, img_count |-> c]
    ELSE IF c < ANIMATION_TIME * 4 THEN [img |-> 1, img_count |-> c]
    ELSE IF c = ANIMATION_TIME * 4 + 1 THEN [img |-> 0, img_count |-> 0]
    ELSE [img |-> img, img_count |-> c]

\* a draw whose steep-dive override sets the image and leaves the counter
BirdDraw_keepcount(b) ==
    LET s == SelectFrame(b.img, b.img_count + 1)
    IN  IF b.tilt <= DIVE_TILT
        THEN [b EXCEPT !.img = 1, !.img_count = s.img_count]
        ELSE [b EXCEPT !.img = s.img, !.img_count = s.img_count]

\* Bird.draw: the animation and the steep-dive override (the blit is in the
\* actions)
BirdDraw(b) ==
    LET s == SelectFrame(b.img, b.img_count + 1)
    IN  IF b.tilt <= DIVE_TILT
        THEN [b EXCEPT !.img = 1, !.img_count = ANIMATION_TIME * 2]
        ELSE [b EXCEPT !.img = s.img, !.img_count = s.img_count]

\* the record of selected frames: the frames of the latest draw calls, at
\* most 4*ANIMATION_TIME + 1 of them, started afresh by a draw under the
\* steep-dive override
NoteFrame(fs, b) ==
    IF b.tilt <= DIVE_TILT THEN <<>>
    ELSE IF Len(fs) < 4 * ANIMATION_TIME + 1 THEN Append(fs, b.img)
    ELSE Append(Tail(fs), b.img)

---------------------------------------------------------------------------
(* class Base *)

\* Base.__init__
Base(y, w) == [y |-> y, x1 |-> 0, x2 |-> w, WIDTH |-> w]

\* a move that cycles an image as soon as its right edge touches x = 0
BaseMove_le(s) ==
    LET a1 == s.x1 - BASE_VEL
        a2 == s.x2 - BASE_VEL
        b1 == IF a1 + s.WIDTH <= 0 THEN a2 + s.WIDTH ELSE a1
        b2 == IF a2 + s.WIDTH <= 0 THEN b1 + s.WIDTH ELSE a2
    IN  [s EXCEPT !.x1 = b1, !.x2 = b2]

\* a move that cycles an image to the fixed position WIDTH
BaseMove_fixed(s) ==
    LET a1 == s.x1 - BASE_VEL
        a2 == s.x2 - BASE_VEL
        b1 == IF a1 + s.WIDTH < 0 THEN s.WIDTH ELSE a1
        b2 == IF a2 + s.WIDTH < 0 THEN s.WIDTH ELSE a2
    IN  [s EXCEPT !.x1 = b1, !.x2 = b2]

\* Base.move
BaseMove(s) ==
    LET a1 == s.x1 - BASE_VEL
        a2 == s.x2 - BASE_VEL
        b1 == IF a1 + s.WIDTH < 0 THEN a2 + s.WIDTH ELSE a1
        b2 == IF a2 + s.WIDTH < 0 THEN b1 + s.WIDTH ELSE a2
    IN  [s EXCEPT !.x1 = b1, !.x2 = b2]

---------------------------------------------------------------------------
(* class Pipe *)

\* the gap heights explored, out of random.randrange(50, 450)
PipeHeights == {50, 250, 449}

\* a pipe whose top offset is taken from the width of the image
Pipe_topwidth(x, h) ==
    [x |-> x, height |-> h, top |-> h - PIPE_IMG_WIDTH, bottom |-> h + GAP,
     passed |-> FALSE]

\* Pipe.__init__ with Pipe.set_height, h being the height randrange returns
Pipe(x, h) ==
    [x |-> x, height |-> h, top |-> h - PIPE_IMG_HEIGHT, bottom |-> h + GAP,
     passed |-> FALSE]

\* Pipe.move
PipeMove(p) == [p EXCEPT !.x = p.x - PIPE_VEL]

---------------------------------------------------------------------------
(* draw_window and main *)

\* a draw_window that renders the score text last
DrawWindow_textlast(ps) ==
    <<"background">> \o [i \in DOMAIN ps |-> "pipe"]
        \o <<"base", "bird", "score", "update">>

\* draw_window's blits, in the order they are made, and the display update
DrawWindow(ps) ==
    <<"background">> \o [i \in DOMAIN ps |-> "pipe"]
        \o <<"score", "base", "bird", "update">>

\* the event lists pygame.event.get() may return
EventLists == {<<>>, <<"KEYDOWN">>, <<"QUIT">>, <<"KEYDOWN", "QUIT">>}

\* the for loop over the drained events
RunAfter(r, evts) ==
    IF \E i \in DOMAIN evts : evts[i] = "QUIT" THEN FALSE ELSE r

\* a retirement test that forgets the width of the image
OffScreen_nowidth(p) == p.x < 0

\* a retirement test against the right edge of the window
OffScreen_rightedge(p) == p.x + PIPE_IMG_WIDTH < WIN_WIDTH

\* main's test "pipe has passed the screen"
OffScreen(p) == p.x + PIPE_IMG_WIDTH < 0

\* a pass test that counts a pipe level with the bird
PassedNow_le(p, b) == ~p.passed /\ p.x <= b.x

\* a pass test that does not look at the passed flag
PassedNow_again(p, b) == p.x < b.x

\* main's test "bird has passed the pipe"
PassedNow(p, b) == ~p.passed /\ p.x < b.x

\* main's test "bird collides with the floor" (bird.y is in half pixels)
FloorContact(b) == b.y + 2 * BIRD_IMG_HEIGHT >= 2 * FLOOR_Y

\* a collision that ends the game
OnCollide_gameover(st) == [st EXCEPT !.run = FALSE]

\* what main does when pipe.collide(bird) is true: pass
OnCollide(st) == st

\* what main does when the bird touches the floor: pass
OnFloor(st) == st

\* a score that grows in every tick
NewScore_always(sc, add_pipe) == sc + 1

\* main's "if add_pipe: score += 1"
NewScore(sc, add_pipe) == IF add_pipe THEN sc + 1 ELSE sc

\* "for r in rem: pipes.remove(r)": ps without the pipes at the indices rem
RemovePipes(ps, rem) ==
    LET F[i \in 0..Len(ps)] ==
            IF i = 0 THEN <<>>
            ELSE IF i \in rem THEN F[i - 1] ELSE Append(F[i - 1], ps[i])
    IN  F[Len(ps)]

\* one iteration of main's while loop on the program state st =
\* [bird, pipes, base, score, run, win].  Its inputs: evts, the drained
\* events; h, the height random.randrange returns if a pipe is made; coll,
\* the indices of the pipes whose collide(bird) returns True; floor, the
\* value of the floor test
LoopBody(st, evts, h, coll, floor) ==
    LET s0       == [st EXCEPT !.run = RunAfter(st.run, evts)]
        s1       == IF coll # {} THEN OnCollide(s0) ELSE s0
        ps       == s1.pipes
        rem      == {i \in DOMAIN ps : OffScreen(ps[i])}
        add_pipe == \E i \in DOMAIN ps : PassedNow(ps[i], s1.bird)
        moved    == [i \in DOMAIN ps |->
                        PipeMove([ps[i] EXCEPT
                            !.passed = @ \/ PassedNow(ps[i], s1.bird)])]
        added    == IF add_pipe
                    THEN Append(moved, Pipe(PIPE_SPAWN_X, h))
                    ELSE moved
        s2       == [s1 EXCEPT
                        !.score = NewScore(@, add_pipe),
                        !.pipes = RemovePipes(added, rem)]
        s3       == IF floor THEN OnFloor(s2) ELSE s2
        s4       == [s3 EXCEPT !.base = BaseMove(s3.base)]
    IN  [s4 EXCEPT !.win = DrawWindow(s4.pipes), !.bird = BirdDraw(s4.bird)]

\* the program state of main
MainState ==
    [bird |-> bird, pipes |-> pipes, base |-> base, score |-> score,
     run |-> run, win |-> win]

---------------------------------------------------------------------------
(* The Bird class driven by arbitrary calls *)

InitBird ==
    /\ bird = Bird(BIRD_X, BIRD_Y)
    /\ pipes = <<>>
    /\ base = Base(FLOOR_Y, BASE_IMG_WIDTH)
    /\ score = 0
    /\ run = TRUE
    /\ pc = "loop"
    /\ win = <<>>
    /\ events = <<>>
    /\ collided = FALSE
    /\ marked = 0
    /\ op = "init"
    /\ frames = <<>>

Jump ==
    /\ bird.y >= MinY
    /\ bird' = BirdJump(bird)
    /\ op' = "jump"
    /\ UNCHANGED <<pipes, base, score, run, pc, win, events, collided, marked, frames>>

Move ==
    /\ bird.tick_count < MaxTick
    /\ bird.y <= MaxY
    /\ bird' = BirdMove(bird)
    /\ op' = "move"
    /\ UNCHANGED <<pipes, base, score, run, pc, win, events, collided, marked, frames>>

Draw ==
    /\ bird' = BirdDraw(bird)
    /\ frames' = NoteFrame(frames, bird')
    /\ win' = <<"bird">>
    /\ op' = "draw"
    /\ UNCHANGED <<pipes, base, score, run, pc, events, collided, marked>>

NextBird == Jump \/ Move \/ Draw

SpecBird == InitBird /\ [][NextBird]_vars

---------------------------------------------------------------------------
(* Bird.draw under any changes of the tilt *)

\* the tilts explored: the two limits, the start value, and values on both
\* sides of the steep-dive threshold
DrawTilts == {MAX_ROTATION, 0, DIVE_TILT + 5, DIVE_TILT, TILT_FLOOR - 5}

\* an assignment of Bird.move to self.tilt
SetTilt ==
    /\ \E t \in DrawTilts : bird' = [bird EXCEPT !.tilt = t]
    /\ op' = "tilt"
    /\ UNCHANGED <<pipes, base, score, run, pc, win, events, collided, marked, frames>>

NextDraw == Draw \/ SetTilt

SpecDraw == InitBird /\ [][NextDraw]_vars

---------------------------------------------------------------------------
(* The Base class driven by move calls, for two image widths *)

\* the widths of the floor image explored: the viewport's width and the
\* width of the scaled base.png
BaseWidths == {WIN_WIDTH, BASE_IMG_WIDTH}

InitBase ==
    /\ bird = Bird(BIRD_X, BIRD_Y)
    /\ pipes = <<>>
    /\ base \in {Base(FLOOR_Y, w) : w \in BaseWidths}
    /\ score = 0
    /\ run = TRUE
    /\ pc = "loop"
    /\ win = <<>>
    /\ events = <<>>
    /\ collided = FALSE
    /\ marked = 0
    /\ op = "init"
    /\ frames = <<>>

MoveBase ==
    /\ base' = BaseMove(base)
    /\ op' = "base_move"
    /\ UNCHANGED <<bird, pipes, score, run, pc, win, events, collided, marked, frames>>

NextBase == MoveBase

SpecBase == InitBase /\ [][NextBase]_vars

---------------------------------------------------------------------------
(* The Pipe class: one pipe made, advanced and marked as main does *)

InitPipe ==
    /\ bird = Bird(BIRD_X, BIRD_Y)
    /\ pipes = <<>>
    /\ base = Base(FLOOR_Y, BASE_IMG_WIDTH)
    /\ score = 0
    /\ run = TRUE
    /\ pc = "loop"
    /\ win = <<>>
    /\ events = <<>>
    /\ collided = FALSE
    /\ marked = 0
    /\ op = "init"
    /\ frames = <<>>

\* Pipe(600), with any of the heights explored
NewPipe ==
    /\ pipes = <<>>
    /\ \E h \in PipeHeights : pipes' = <<Pipe(PIPE_SPAWN_X, h)>>
    /\ op' = "pipe_new"
    /\ UNCHANGED <<bird, base, score, run, pc, win, events, collided, marked, frames>>

\* pipe.move(), for a pipe main has not retired
MovePipe ==
    /\ pipes # <<>>
    /\ ~OffScreen(pipes[1])
    /\ pipes' = <<PipeMove(pipes[1])>>
    /\ op' = "pipe_move"
    /\ UNCHANGED <<bird, base, score, run, pc, win, events, collided, marked, frames>>

\* main's "pipe.passed = True"
MarkPassed ==
    /\ pipes # <<>>
    /\ PassedNow(pipes[1], bird)
    /\ pipes' = <<[pipes[1] EXCEPT !.passed = TRUE]>>
    /\ marked' = marked + 1
    /\ op' = "pipe_passed"
    /\ UNCHANGED <<bird, base, score, run, pc, win, events, collided, frames>>

NextPipe == NewPipe \/ MovePipe \/ MarkPassed

SpecPipe == InitPipe /\ [][NextPipe]_vars

---------------------------------------------------------------------------
(* main *)

\* main up to the while loop
InitMain ==
    /\ bird = Bird(BIRD_X, BIRD_Y)
    /\ base = Base(FLOOR_Y, BASE_IMG_WIDTH)
    /\ pipes \in {<<Pipe(PIPE_SPAWN_X, h)>> : h \in PipeHeights}
    /\ score = 0
    /\ run = TRUE
    /\ pc = "loop"
    /\ win = <<>>
    /\ events = <<>>
    /\ collided = FALSE
    /\ marked = 0
    /\ op = "init"
    /\ frames = <<>>

\* one iteration of the while loop
Tick ==
    /\ pc = "loop"
    /\ run
    /\ score < MaxScore
    /\ \E evts \in EventLists, h \in PipeHeights, coll \in SUBSET DOMAIN pipes :
          LET n == LoopBody(MainState, evts, h, coll, FloorContact(bird))
          IN  /\ bird' = n.bird
              /\ pipes' = n.pipes
              /\ base' = n.base
              /\ score' = n.score
              /\ run' = n.run
              /\ win' = n.win
              /\ events' = evts
              /\ collided' = (coll # {})
              /\ marked' = marked + Cardinality({i \in DOMAIN pipes : PassedNow(pipes[i], bird)})
              /\ frames' = NoteFrame(frames, n.bird)
    /\ op' = "tick"
    /\ pc' = pc

\* the loop is left: pygame.quit() and quit()
Exit ==
    /\ pc = "loop"
    /\ ~run
    /\ pc' = "exit"
    /\ win' = <<>>
    /\ op' = "exit"
    /\ UNCHANGED <<bird, pipes, base, score, run, events, collided, marked, frames>>

NextMain == Tick \/ Exit

SpecMain == InitMain /\ [][NextMain]_vars

---------------------------------------------------------------------------
(* Claims about the Bird class *)

\* C1: after any sequence of jump and move calls the tilt is within
\* [-90, 25] degrees.
C1_TiltInRange == bird.tilt >= -90 /\ bird.tilt <= 25

\* C3: the n-th move after a jump adds min(16, d) to y when d >= 0 and
\* d - 2 when d < 0, for d = -10.5*n + 1.5*n^2, and never more than 16
\* (all of them doubled here, y being in half pixels).
C3_Displacement ==
    [][(op' = "move" /\ bird.vel = -21) =>
         LET n     == bird'.tick_count
             d     == -21 * n + 3 * n * n
             added == bird'.y - bird.y
         IN  /\ n = bird.tick_count + 1
             /\ d >= 0 => added = (IF d < 2 * 16 THEN d ELSE 2 * 16)
             /\ d < 0 => added = d - 2 * 2
             /\ added <= 2 * 16]_vars

\* a move after a jump whose displacement was cut to the terminal 16
C3_Witness ==
    /\ op = "move" /\ bird.vel = -21 /\ bird.tick_count = 9
    /\ bird.y = bird.height - 2 * 84 + 2 * 16

\* C4: without the steep-dive override the selected frame is in {0, 1, 2}
\* and the sequence of selected frames has period 20: the frame of a draw
\* call is the frame of the draw call 20 calls before it.
C4_Period20 ==
    /\ \A i \in DOMAIN frames : frames[i] \in {0, 1, 2}
    /\ \A i \in DOMAIN frames : i + 20 \in DOMAIN frames => frames[i] = frames[i + 20]

\* C6 as written: with no jump, the first move takes y from 350 to 351.5
\* and the tilt from 0 to -20.
C6_FirstMoveTiltsDown ==
    (bird.vel = 0 /\ bird.tick_count = 1) => (bird.y = 2 * 350 + 3 /\ bird.tilt = -20)

\* C6, amended: with no jump, the first move takes y from 350 to 351.5 and
\* the tilt from 0 to 25, the bird being less than 50 below its reference
\* height.
C6_FirstMoveTiltsUp ==
    (bird.vel = 0 /\ bird.tick_count = 1) => (bird.y = 2 * 350 + 3 /\ bird.tilt = 25)

\* the state right after the first move of a bird that never jumped
C6_Witness == op = "move" /\ bird.vel = 0 /\ bird.tick_count = 1 /\ bird.x = 230

---------------------------------------------------------------------------
(* Claims about the game loop *)

\* C2: a tick in which some unpassed pipe has x < 230 adds exactly 1 to the
\* score and appends exactly one pipe, at x = 600 and not advanced; any
\* other tick leaves the score alone and appends no pipe.  (A pipe at
\* x = 600 after a tick is a pipe appended by it: every other pipe was
\* advanced from a position of at most 600.)
C2_ScoreAndSpawn ==
    [][op' = "tick" =>
         LET trigger == \E i \in DOMAIN pipes : ~pipes[i].passed /\ pipes[i].x < 230
             fresh   == {j \in DOMAIN pipes' : pipes'[j].x = 600}
             old     == {j \in DOMAIN pipes' : pipes'[j].x # 600}
         IN  /\ Cardinality(old) <= Len(pipes)
             /\ IF trigger
                THEN /\ score' = score + 1
                     /\ fresh = {Len(pipes')}
                     /\ ~pipes'[Len(pipes')].passed
                ELSE /\ score' = score
                     /\ fresh = {}]_vars

\* the end of the tick that scored the first pipe and appended the second
C2_Witness ==
    /\ op = "tick" /\ score = 1 /\ Len(pipes) = 2
    /\ pipes[1].passed /\ pipes[1].x = 220
    /\ ~pipes[2].passed /\ pipes[2].x = 600

\* C5 as written: a tick removes a pipe if and only if its x + width < 0,
\* and no pipe with x + width < 0 is in the list at the end of a tick.
C5_NoOffScreenPipeRendered ==
    [][op' = "tick" =>
         /\ \A i \in DOMAIN pipes :
               (pipes[i].x + 104 < 0) <=>
                   ~ \E j \in DOMAIN pipes' :
                        /\ pipes'[j].x = pipes[i].x - 5
                        /\ pipes'[j].height = pipes[i].height
         /\ \A j \in DOMAIN pipes' : pipes'[j].x + 104 >= 0]_vars

\* C5, amended: a tick removes a pipe if and only if its x + width < 0
\* when the tick examines it, before advancing it; so at the end of a tick
\* every pipe of the list has x + width >= -5.
C5_RemovedIffOffScreenWhenExamined ==
    [][op' = "tick" =>
         /\ \A i \in DOMAIN pipes :
               (pipes[i].x + 104 < 0) <=>
                   ~ \E j \in DOMAIN pipes' :
                        /\ pipes'[j].x = pipes[i].x - 5
                        /\ pipes'[j].height = pipes[i].height
         /\ \A j \in DOMAIN pipes' : pipes'[j].x + 104 >= -5]_vars

\* the end of the tick that removed the first pipe
C5_Witness ==
    /\ op = "tick" /\ score = 1 /\ Len(pipes) = 1
    /\ ~pipes[1].passed /\ pipes[1].x = 270

\* C7: every tick advances the bird (one Bird.move call), every pipe it
\* keeps and the floor exactly once.
C7_EveryBodyAdvanced ==
    [][op' = "tick" =>
         /\ bird'.tick_count = bird.tick_count + 1
         /\ \A j \in DOMAIN pipes' :
               pipes'[j].x # 600 =>
                   \E i \in DOMAIN pipes : pipes'[j].x = pipes[i].x - 5
         /\ {base'.x1, base'.x2} # {base.x1, base.x2}]_vars

\* C8: the loop flag falls only in a tick that drained a quit event, main
\* leaves the loop only when the flag has fallen, and the state a tick
\* leads to is the result of the loop body whatever the collision tests and
\* the floor test of the tick return.
C8_OnlyQuitEndsTheLoop ==
    [][/\ (run /\ ~run') =>
              (op' = "tick" /\ \E i \in DOMAIN events' : events'[i] = "QUIT")
       /\ (pc # pc') => (~run /\ run' = run /\ pc' = "exit")
       /\ (op' = "tick") =>
              \A coll \in SUBSET DOMAIN pipes, floor \in BOOLEAN :
                  \E h \in PipeHeights :
                      MainState' = LoopBody(MainState, events', h, coll, floor)]_vars

\* the end of a tick in which a collision was detected: the loop runs on
C8_Witness == op = "tick" /\ collided /\ run /\ pc = "loop" /\ score = 1

---------------------------------------------------------------------------
(* Claims about the Base class *)

\* C9: Base.move takes 5 from both offsets; then an offset is set to the
\* other offset + WIDTH exactly when its own offset + WIDTH < 0, and is left
\* as decremented otherwise; one call never repositions both.
C9_Reposition ==
    [][op' = "base_move" =>
         LET w  == base.WIDTH
             a1 == base.x1 - 5
             a2 == base.x2 - 5
             r1 == a1 + w < 0
             r2 == a2 + w < 0
         IN  /\ ~(r1 /\ r2)
             /\ base'.x1 = (IF r1 THEN a2 + w ELSE a1)
             /\ base'.x2 = (IF r2 THEN a1 + w ELSE a2)]_vars

\* the state after a call that repositioned the first segment
C9_Witness ==
    /\ op = "base_move" /\ base.x1 = base.x2 + base.WIDTH
    /\ base.x2 < 0 /\ base.x2 >= -5

\* C10: after any number of Base.move calls |x1 - x2| = WIDTH, and with
\* WIDTH >= 500 every x of the viewport [0, 500] lies in one of the two
\* segments.
C10_Tiling ==
    /\ (base.x1 - base.x2 = base.WIDTH \/ base.x2 - base.x1 = base.WIDTH)
    /\ base.WIDTH >= 500 =>
          \A x \in 0..500 :
              \/ (base.x1 <= x /\ x <= base.x1 + base.WIDTH)
              \/ (base.x2 <= x /\ x <= base.x2 + base.WIDTH)

\* the state after a call that repositioned the second segment
C10_Witness ==
    /\ op = "base_move" /\ base.x2 = base.x1 + base.WIDTH
    /\ base.x1 < 0 /\ base.x1 >= -5

---------------------------------------------------------------------------
(* Claims about the Pipe class *)

\* C11: every pipe, from its creation on, has its gap height in [50, 450)
\* and top + image height = bottom - 200 = height; Pipe.move takes 5 from x
\* and changes nothing else.
C11_PipeGeometry ==
    [][/\ \A i \in DOMAIN pipes' :
             /\ pipes'[i].height >= 50 /\ pipes'[i].height < 450
             /\ pipes'[i].top + PIPE_IMG_HEIGHT = pipes'[i].height
             /\ pipes'[i].bottom - 200 = pipes'[i].height
       /\ op' = "pipe_move" =>
             /\ pipes'[1].x = pipes[1].x - 5
             /\ pipes'[1].height = pipes[1].height
             /\ pipes'[1].top = pipes[1].top
             /\ pipes'[1].bottom = pipes[1].bottom
             /\ pipes'[1].passed = pipes[1].passed]_vars

\* a pipe that has been marked passed and advanced after that
C11_Witness ==
    /\ op = "pipe_move" /\ pipes # <<>>
    /\ pipes[1].passed /\ pipes[1].x = 100 /\ pipes[1].height = 449

---------------------------------------------------------------------------
(* Claims about draw_window *)

\* C12 as written: a rendered frame is drawn in the order background, the
\* pipes, floor, bird, score text, and then presented.
C12_ScoreTextDrawnLast ==
    op = "tick" =>
        LET n == Len(pipes)
        IN  /\ Len(win) = n + 5
            /\ win[1] = "background"
            /\ \A i \in 2..(n + 1) : win[i] = "pipe"
            /\ win[n + 2] = "base"
            /\ win[n + 3] = "bird"
            /\ win[n + 4] = "score"
            /\ win[n + 5] = "update"

\* C12, amended: a rendered frame is drawn in the order background, the
\* pipes, score text, floor, bird, and then presented: the score text is
\* drawn after the pipes and before the floor and the bird.
C12_ScoreTextDrawnBeforeFloor ==
    op = "tick" =>
        LET n == Len(pipes)
        IN  /\ Len(win) = n + 5
            /\ win[1] = "background"
            /\ \A i \in 2..(n + 1) : win[i] = "pipe"
            /\ win[n + 2] = "score"
            /\ win[n + 3] = "base"
            /\ win[n + 4] = "bird"
            /\ win[n + 5] = "update"

\* a frame rendered with two pipes in the list
C12_Witness ==
    /\ op = "tick" /\ Len(pipes) = 2 /\ Len(win) = 7
    /\ win[2] = "pipe" /\ win[3] = "pipe" /\ win[4] = "score"

---------------------------------------------------------------------------
(* Claims about the score and the life of a pipe *)

\* C13: at the end of every tick the score is the number of passed flags
\* set so far, and no step lowers the score.
C13_ScoreCountsPassedPipes ==
    [][/\ op' = "tick" => score' = marked'
       /\ score' >= score]_vars

\* the end of the tick after the one that scored the second pipe
C13_Witness ==
    /\ op = "tick" /\ score = 2 /\ marked = 2
    /\ Len(pipes) = 2 /\ pipes[2].x = 595

---------------------------------------------------------------------------
(* More claims about the Bird class *)

\* C14: Bird.jump sets vel to -10.5, tick_count to 0 and height to the
\* current y, and leaves y, x, tilt, img_count and img as they were.
C14_JumpEffect ==
    [][op' = "jump" =>
         /\ bird'.vel = -21
         /\ bird'.tick_count = 0
         /\ bird'.height = bird.y
         /\ bird'.y = bird.y
         /\ bird'.x = bird.x
         /\ bird'.tilt = bird.tilt
         /\ bird'.img_count = bird.img_count
         /\ bird'.img = bird.img]_vars

\* a jump made during a steep dive, after moves and draws
C14_Witness ==
    /\ op = "jump" /\ bird.tick_count = 0 /\ bird.vel = -21
    /\ bird.height = bird.y /\ bird.y > 2 * 350
    /\ bird.tilt = -95 /\ bird.img_count = 10

\* C15: a move whose displacement is negative or whose new y is less than
\* height + 50 sets the tilt to 25; any other move takes exactly 20 from
\* the tilt, and never takes it below -90.
C15_TiltUpdate ==
    [][op' = "move" =>
         IF bird'.y - bird.y < 0 \/ bird'.y < bird.height + 2 * 50
         THEN bird'.tilt = 25
         ELSE bird'.tilt = bird.tilt - 20 /\ bird'.tilt >= -90]_vars

\* C16: a draw made with tilt <= -80 selects frame 1 and leaves img_count
\* at 10 whatever it was; the first draw made after that with tilt > -80
\* goes on from there (img_count 11, frame 2) and not from frame 0.  (The
\* record of frames is empty and img_count is 10 exactly when the latest
\* draw was made under the override.)
C16_DiveOverride ==
    [][op' = "draw" =>
         /\ bird.tilt <= -80 => (bird'.img = 1 /\ bird'.img_count = 10)
         /\ (bird.tilt > -80 /\ frames = <<>> /\ bird.img_count = 10) =>
               (bird'.img_count = 11 /\ bird'.img = 2 /\ bird'.img # 0)]_vars

\* the first draw after a dive that a jump and a move have ended
C16_Witness ==
    /\ op = "draw" /\ bird.tilt = 25 /\ bird.vel = -21
    /\ frames = <<2>> /\ bird.img_count = 11

\* C17: initially and at the end of every tick the list of pipes is not
\* empty and its only pipe with passed = False is the last one, the latest
\* made; so a tick finds at most one pipe to mark.
C17_OneUnpassedPipe ==
    /\ Len(pipes) >= 1
    /\ {i \in DOMAIN pipes : ~pipes[i].passed} = {Len(pipes)}
    /\ Cardinality({i \in DOMAIN pipes : ~pipes[i].passed /\ pipes[i].x < 230}) <= 1

\* the end of the tick that scored the second pipe and appended the third
C17_Witness ==
    /\ op = "tick" /\ score = 2 /\ Len(pipes) = 2
    /\ pipes[1].passed /\ ~pipes[2].passed /\ pipes[2].x = 600

\* C18: a tick never takes a pipe's passed flag from True to False, and
\* every pipe a tick removes has passed = True.  (The pipe of the list that
\* continues pipes[i] is the one at x - 5 with the same height.)
C18_PassedBeforeRemoved ==
    [][op' = "tick" =>
         \A i \in DOMAIN pipes :
             LET next == {j \in DOMAIN pipes' :
                             /\ pipes'[j].x = pipes[i].x - 5
                             /\ pipes'[j].height = pipes[i].height}
             IN  /\ pipes[i].passed => \A j \in next : pipes'[j].passed
                 /\ next = {} => pipes[i].passed]_vars

\* the end of the tick that removed the second pipe
C18_Witness ==
    /\ op = "tick" /\ score = 2 /\ marked = 2 /\ Len(pipes) = 1
    /\ ~pipes[1].passed /\ pipes[1].x = 270

---------------------------------------------------------------------------
(* Claims about Bird.draw under any tilt *)

\* C19: whatever the tilt does between the draw calls, img_count is within
\* 0..21 after every call, so the branch img_count == 21 is never jumped
\* over and the animation does not freeze: any 21 draw calls in a row made
\* without the steep-dive override select all three frames.
C19_CounterInRange ==
    /\ bird.img_count >= 0 /\ bird.img_count <= 21
    /\ Len(frames) = 21 => {frames[i] : i \in DOMAIN frames} = {0, 1, 2}

\* the counter reset by the branch img_count == 21 on the eleventh draw
\* after a steep dive
C19_Witness ==
    /\ op = "draw" /\ bird.img_count = 0 /\ bird.img = 0
    /\ frames = <<2, 2, 2, 2, 1, 1, 1, 1, 1, 1, 0>>

====
